---------------------------- MODULE Spec2Model ----------------------------
(***************************************************************************)
(* State-machine model of src/server.js (lines 1-723, the variant with the *)
(* friend graph, presence map, chat log and data.json persistence).        *)
(*                                                                         *)
(* Node runs every Express handler, every socket.io event callback and the *)
(* setInterval callback to completion on one thread, and none of them      *)
(* awaits (fs.writeFileSync is synchronous), so each handler is one action.*)
(*                                                                         *)
(* JS strings are modelled as sequences of one-character strings, so that  *)
(* trim() and toLowerCase() are computed and not assumed.  A missing       *)
(* (undefined) field and the empty string are both falsy in every test the *)
(* handlers make on them, and both are the empty sequence here.            *)
(***************************************************************************)
EXTENDS Integers, Sequences, FiniteSets, TLC

VARIABLES
  users,        \* Map username -> {password, friends, incoming, outgoing}
  onlineUsers,  \* Map username -> socket id
  messages,     \* array of {id, from, to, text, createdAt}
  disk,         \* content of data.json
  diskWritable, \* environment: does fs.writeFileSync succeed
  now,          \* Date.now(), in ms since the start of the model's clock
  open,         \* socket ids of the live connections
  username,     \* per live connection: the closure variable `username`
  nextSocket,   \* number of connections accepted so far (socket ids are fresh)
  last,         \* the request or event handled last and how it ended
  emitted       \* the io.to(..).emit(..) calls of the handler that ran last

vars == <<users, onlineUsers, messages, disk, diskWritable, now, open,
          username, nextSocket, last, emitted>>

----------------------------------------------------------------------------
(* Bounds of the model *)

\* connections accepted over a run of the presence specification
MaxSockets == 2
\* connections accepted over a run of the other specifications
MaxSessions == 1
\* messages held in the log
MaxMessages == 2

----------------------------------------------------------------------------
(* Program constants *)

MESSAGE_TTL_MS == 2 * 24 * 60 * 60 * 1000

MAX_TEXT == 2000

\* JS null (password of a lazily created account, `username` before register):
\* a value that is no string
null == <<"null">>

----------------------------------------------------------------------------
(* Strings *)

\* s without its leading blanks
dropSpaces(s) ==
  LET blanks == {i \in 0..Len(s) : \A j \in 1..i : s[j] = " "}
      n      == CHOOSE i \in blanks : \A j \in blanks : j <= i
  IN  SubSeq(s, n + 1, Len(s))

reverse(s) == [i \in 1..Len(s) |-> s[Len(s) + 1 - i]]

\* String.prototype.trim
trim(s) == reverse(dropSpaces(reverse(dropSpaces(s))))

lowerChar(c) ==
  CASE c = "A" -> "a"
    [] c = "B" -> "b"
    [] c = "C" -> "c"
    [] c = "H" -> "h"
    [] OTHER -> c

\* String.prototype.toLowerCase
toLowerCase(s) == [i \in 1..Len(s) |-> lowerChar(s[i])]

\* a normalisation that forgets the lower case
normalize_trimOnly(s) == trim(s)

\* x.trim().toLowerCase(), the normalisation every handler applies
normalize(s) == toLowerCase(trim(s))

\* a slice that cuts nothing off
slice0_whole(s, n) == s

\* String.prototype.slice(0, n)
slice0(s, n) == SubSeq(s, 1, IF Len(s) < n THEN Len(s) ELSE n)

\* const [, token] = authHeader.split(' ') for the header "Bearer <raw>":
\* the second piece, i.e. raw up to its first blank
RECURSIVE upToSpace(_)
upToSpace(s) ==
  IF s = <<>> \/ Head(s) = " " THEN <<>> ELSE <<Head(s)>> \o upToSpace(Tail(s))

----------------------------------------------------------------------------
(* Inputs the callers may supply *)

Missing == <<>>
Blank   == <<" ">>
Alice   == <<" ", "A">>
Bob     == <<"b">>
Carol   == <<"C", " ">>
Proto   == <<"_", "_", "p", "r", "o", "t", "o", "_", "_">>

\* usernames as callers type them
RawNames == { Missing, Alice, Bob, Carol }

\* the callers of /friends/request: alice also writes her name as "a"
RequestFrom == RawNames \cup {<<"a">>}

\* passwords offered to POST /register, and to POST /login
RegisterPasswords == { <<>>, <<"p">> }

LoginPasswords == { <<>>, <<"p">>, <<"q">> }

\* passwords tried at /login: none, two real ones and the word "null"
Credentials == { <<>>, <<"p">>, <<"q">>, <<"n", "u", "l", "l">> }

RawTexts == { <<>>, <<" ">>, <<"h", "i">> }

\* a text of MAX_TEXT + 1 units, and one of MAX_TEXT units with blanks around
LongText ==
  [i \in 1..(MAX_TEXT + 1) |->
     IF i = 1 THEN "w" ELSE IF i > MAX_TEXT THEN "y" ELSE "x"]

FullText ==
  [i \in 1..MAX_TEXT |-> IF i = 1 \/ i = MAX_TEXT THEN " " ELSE "x"]

SizedTexts == { <<>>, <<"h", "i">>, FullText, LongText }

\* the `time` field of a chatMessage event (0: absent)
ClientTimes == {0, 2}

\* the instants after the start (now = 1) at which a handler may run: a
\* message stamped 1 is then exactly MESSAGE_TTL_MS old, or 1 ms older
ClockInstants == {MESSAGE_TTL_MS + 1, MESSAGE_TTL_MS + 2}

\* what follows "Bearer " in the Authorization header (<<>>: no header)
RawTokens == { <<>>, <<" ", "a">>, <<"A">>, <<"b", " ">> }

\* the roomName of a call
RawRooms == { <<>>, <<"r">> }

\* the random part of a message id
RandomParts == {0}

----------------------------------------------------------------------------
(* Helpers of the server *)

newUser(password) ==
  [password |-> password, friends |-> {}, incoming |-> {}, outgoing |-> {}]

has(map, key) == key \in DOMAIN map

set(map, key, value) ==
  [k \in DOMAIN map \cup {key} |-> IF k = key THEN value ELSE map[k]]

delete(map, key) == [k \in DOMAIN map \ {key} |-> map[k]]

ensureUser(us, name) ==
  IF ~has(us, name) THEN set(us, name, newUser(null)) ELSE us

RECURSIVE setToSeq(_)
\* Array.from(aSet)
setToSeq(S) ==
  IF S = {} THEN <<>>
  ELSE LET x == CHOOSE y \in S : TRUE IN <<x>> \o setToSeq(S \ {x})

seqToSet(s) == { s[i] : i \in 1..Len(s) }

\* The own properties of plainUsers after plainUsers[name] = {...} ran for
\* every name: the assignment to the key __proto__ goes to the accessor of
\* Object.prototype, which makes the value the prototype of plainUsers and
\* creates no property, so JSON.stringify does not write that entry.
ownKeys(us) == DOMAIN us \ {Proto}

\* the payload saveToDisk serialises
payload(us, ms) ==
  [exists |-> TRUE,
   users |-> [n \in ownKeys(us) |->
                [password |-> us[n].password,
                 friends  |-> setToSeq(us[n].friends),
                 incoming |-> setToSeq(us[n].incoming),
                 outgoing |-> setToSeq(us[n].outgoing)]],
   messages |-> ms]

\* the users Map and the messages array loadFromDisk() builds from data.json
loadFromDisk(file) ==
  IF ~file.exists THEN [users |-> <<>>, messages |-> <<>>]
  ELSE [users |-> [n \in DOMAIN file.users |->
                     [password |-> file.users[n].password,
                      friends  |-> seqToSet(file.users[n].friends),
                      incoming |-> seqToSet(file.users[n].incoming),
                      outgoing |-> seqToSet(file.users[n].outgoing)]],
        messages |-> file.messages]

\* data.json after saveToDisk() ran on (us, ms): a failed write is caught and
\* leaves the file as it was
saveToDisk(us, ms) == IF diskWritable THEN payload(us, ms) ELSE disk

\* the socket a username is mapped to, 0 (falsy) when it has none
socketOf(name) == IF has(onlineUsers, name) THEN onlineUsers[name] ELSE 0

emit(socket, event, from) == [to |-> socket, event |-> event, from |-> from]

\* emits without looking whether name has a socket
emitIfOnline_always(name, event, from) ==
  <<emit(socketOf(name), event, from)>>

\* never emits
emitIfOnline_never(name, event, from) == <<>>

\* emits to the socket of name if it has one
emitIfOnline(name, event, from) ==
  IF socketOf(name) # 0 THEN <<emit(socketOf(name), event, from)>> ELSE <<>>

\* What the handler that ran last answered: the HTTP status (0 for a socket
\* event or the timer), the branch it took and the JSON body where a claim
\* reads it.  The normalised parties of the call are kept when it went through
\* (200, or a socket event that was not dropped); an error answer carries only
\* the error.
reply(op, from, to, status, result, body) ==
  [op |-> op, status |-> status, result |-> result, body |-> body,
   from |-> IF status = 200 \/ result = "ok" THEN from ELSE <<>>,
   to   |-> IF status = 200 \/ result = "ok" THEN to ELSE <<>>]

add(us, name, field, x) == [us EXCEPT ![name][field] = @ \cup {x}]

del(us, name, field, x) == [us EXCEPT ![name][field] = @ \ {x}]

----------------------------------------------------------------------------
(* Initial state: loadFromDisk() finds no data.json *)

Init ==
  /\ users = <<>>
  /\ onlineUsers = <<>>
  /\ messages = <<>>
  /\ disk = [exists |-> FALSE, users |-> <<>>, messages |-> <<>>]
  /\ diskWritable = TRUE
  /\ now = 1
  /\ open = {}
  /\ username = <<>>
  /\ nextSocket = 0
  /\ last = reply("start", <<>>, <<>>, 0, "ok", <<>>)
  /\ emitted = <<>>

----------------------------------------------------------------------------
(* POST /register { username, password } *)

\* a register whose save lets the write error through: the account is in
\* users, the caller is answered 500
Register_throwsOnWrite(rawUsername, password) ==
  LET name == normalize(rawUsername) IN
  /\ UNCHANGED <<onlineUsers, messages, diskWritable, now, open, username,
                 nextSocket>>
  /\ emitted' = <<>>
  /\ IF rawUsername = <<>> \/ password = <<>>
     THEN /\ last' = reply("register", name, <<>>, 400, "Validation", <<>>)
          /\ UNCHANGED <<users, disk>>
     ELSE IF has(users, name)
     THEN /\ last' = reply("register", name, <<>>, 409, "AlreadyExists", <<>>)
          /\ UNCHANGED <<users, disk>>
     ELSE /\ users' = set(users, name, newUser(password))
          /\ disk' = saveToDisk(users', messages)
          /\ last' = IF diskWritable
                     THEN reply("register", name, <<>>, 200, "ok", <<>>)
                     ELSE reply("register", name, <<>>, 500, "WriteFailed", <<>>)

\* a register that does not look whether the name is taken
Register_overwrites(rawUsername, password) ==
  LET name == normalize(rawUsername) IN
  /\ UNCHANGED <<onlineUsers, messages, diskWritable, now, open, username,
                 nextSocket>>
  /\ emitted' = <<>>
  /\ IF rawUsername = <<>> \/ password = <<>>
     THEN /\ last' = reply("register", name, <<>>, 400, "Validation", <<>>)
          /\ UNCHANGED <<users, disk>>
     ELSE /\ users' = set(users, name, newUser(password))
          /\ disk' = saveToDisk(users', messages)
          /\ last' = reply("register", name, <<>>, 200, "ok", <<>>)


Register(rawUsername, password) ==
  LET name == normalize(rawUsername) IN
  /\ UNCHANGED <<onlineUsers, messages, diskWritable, now, open, username,
                 nextSocket>>
  /\ emitted' = <<>>
  /\ IF rawUsername = <<>> \/ password = <<>>
     THEN /\ last' = reply("register", name, <<>>, 400, "Validation", <<>>)
          /\ UNCHANGED <<users, disk>>
     ELSE IF has(users, name)
     THEN /\ last' = reply("register", name, <<>>, 409, "AlreadyExists", <<>>)
          /\ UNCHANGED <<users, disk>>
     ELSE /\ users' = set(users, name, newUser(password))
          /\ disk' = saveToDisk(users', messages)
          /\ last' = reply("register", name, <<>>, 200, "ok", <<>>)

\* a login that does not compare the password
Login_anyPassword(rawUsername, password) ==
  LET name == normalize(rawUsername) IN
  /\ UNCHANGED <<users, onlineUsers, messages, disk, diskWritable, now, open,
                 username, nextSocket>>
  /\ emitted' = <<>>
  /\ last' =
       IF rawUsername = <<>> \/ password = <<>>
         THEN reply("login", name, <<>>, 400, "Validation", <<>>)
       ELSE IF ~has(users, name)
         THEN reply("login", name, <<>>, 404, "NotFound", <<>>)
       ELSE reply("login", name, <<>>, 200, "ok", <<>>)

(* POST /login { username, password } *)
Login(rawUsername, password) ==
  LET name == normalize(rawUsername) IN
  /\ UNCHANGED <<users, onlineUsers, messages, disk, diskWritable, now, open,
                 username, nextSocket>>
  /\ emitted' = <<>>
  /\ last' =
       IF rawUsername = <<>> \/ password = <<>>
         THEN reply("login", name, <<>>, 400, "Validation", <<>>)
       ELSE IF ~has(users, name)
         THEN reply("login", name, <<>>, 404, "NotFound", <<>>)
       ELSE IF users[name].password # password
         THEN reply("login", name, <<>>, 401, "BadCredential", <<>>)
       ELSE reply("login", name, <<>>, 200, "ok", <<>>)

----------------------------------------------------------------------------
(* Friends APIs *)

\* the self-reference test left out
sameUser_never(fromName, toName) == FALSE

\* fromName === toName
sameUser(fromName, toName) == fromName = toName

\* fromUser.friends.has(toName) || toUser.friends.has(fromName)
alreadyFriends(us, fromName, toName) ==
  toName \in us[fromName].friends \/ fromName \in us[toName].friends

\* the pending test that looks at the caller's own requests only
alreadyPending_outgoingOnly(us, fromName, toName) ==
  toName \in us[fromName].outgoing

\* fromUser.outgoing.has(toName) || fromUser.incoming.has(toName)
alreadyPending(us, fromName, toName) ==
  toName \in us[fromName].outgoing \/ toName \in us[fromName].incoming

\* the friendship test left out
isFriend_always(us, fromName, toName) == TRUE

\* fromUser.friends.has(toName), the test both chat surfaces make
isFriend(us, fromName, toName) == toName \in us[fromName].friends

(* GET /friends?username=... *)
GetFriends(rawUsername) ==
  LET name == normalize(rawUsername) IN
  /\ UNCHANGED <<users, onlineUsers, messages, disk, diskWritable, now, open,
                 username, nextSocket>>
  /\ emitted' = <<>>
  /\ last' =
       IF name = <<>> \/ ~has(users, name)
         THEN reply("friends", name, <<>>, 404, "UnknownUser", <<>>)
       ELSE reply("friends", name, <<>>, 200, "ok",
                  [friends  |-> users[name].friends,
                   incoming |-> users[name].incoming,
                   outgoing |-> users[name].outgoing])

\* a request that, finding a request pending, enters the friendship
requestEffect_autoAccept(us, fromName, toName) ==
  IF alreadyFriends(us, fromName, toName)
  THEN [users |-> us, result |-> "alreadyFriends"]
  ELSE IF alreadyPending(us, fromName, toName)
  THEN [users |-> add(add(del(del(del(del(us,
                    fromName, "incoming", toName), fromName, "outgoing", toName),
                    toName, "incoming", fromName), toName, "outgoing", fromName),
                    fromName, "friends", toName), toName, "friends", fromName),
        result |-> "ok"]
  ELSE [users |-> add(add(us, fromName, "outgoing", toName),
                      toName, "incoming", fromName),
        result |-> "ok"]

\* what POST /friends/request does to two existing, distinct accounts: the
\* store it leaves and the branch it took
requestEffect(us, fromName, toName) ==
  IF alreadyFriends(us, fromName, toName)
  THEN [users |-> us, result |-> "alreadyFriends"]
  ELSE IF alreadyPending(us, fromName, toName)
  THEN [users |-> us, result |-> "alreadyPending"]
  ELSE [users |-> add(add(us, fromName, "outgoing", toName),
                      toName, "incoming", fromName),
        result |-> "ok"]

(* POST /friends/request { from, to } *)
FriendsRequest(from, to) ==
  LET fromName == normalize(from)
      toName   == normalize(to)
      effect   == requestEffect(users, fromName, toName)
  IN
  /\ UNCHANGED <<onlineUsers, messages, diskWritable, now, open, username,
                 nextSocket>>
  /\ IF from = <<>> \/ to = <<>>
     THEN /\ last' = reply("request", fromName, toName, 400, "Validation", <<>>)
          /\ UNCHANGED <<users, disk>>
          /\ emitted' = <<>>
     ELSE IF sameUser(fromName, toName)
     THEN /\ last' = reply("request", fromName, toName, 400, "SelfReference", <<>>)
          /\ UNCHANGED <<users, disk>>
          /\ emitted' = <<>>
     ELSE IF ~has(users, fromName) \/ ~has(users, toName)
     THEN /\ last' = reply("request", fromName, toName, 404, "UnknownUser", <<>>)
          /\ UNCHANGED <<users, disk>>
          /\ emitted' = <<>>
     ELSE IF effect.result # "ok"
     THEN /\ last' = reply("request", fromName, toName, 200, effect.result, <<>>)
          /\ UNCHANGED <<users, disk>>
          /\ emitted' = <<>>
     ELSE /\ users' = effect.users
          /\ emitted' = emitIfOnline(toName, "friendRequest", fromName)
          /\ disk' = saveToDisk(users', messages)
          /\ last' = reply("request", fromName, toName, 200, "ok", <<>>)

\* accept that enters the friendship on the acceptor's side only
acceptUpdate_oneSided(us, fromName, toName) ==
  LET u1 == del(us, fromName, "incoming", toName)
      u2 == del(u1, toName, "outgoing", fromName)
      u3 == add(u2, fromName, "friends", toName)
      u5 == del(u3, fromName, "outgoing", toName)
  IN  del(u5, toName, "incoming", fromName)

\* accept that leaves the requester's outgoing entry in place
acceptUpdate_keepsOutgoing(us, fromName, toName) ==
  LET u1 == del(us, fromName, "incoming", toName)
      u3 == add(u1, fromName, "friends", toName)
      u4 == add(u3, toName, "friends", fromName)
      u5 == del(u4, fromName, "outgoing", toName)
  IN  del(u5, toName, "incoming", fromName)

\* accept that answers after removing the pending edges, before the
\* friendship is entered
acceptUpdate_pendingOnly(us, fromName, toName) ==
  LET u1 == del(us, fromName, "incoming", toName)
  IN  del(u1, toName, "outgoing", fromName)

\* the six Set updates of a successful POST /friends/accept, in program order
acceptUpdate(us, fromName, toName) ==
  LET u1 == del(us, fromName, "incoming", toName)
      u2 == del(u1, toName, "outgoing", fromName)
      u3 == add(u2, fromName, "friends", toName)
      u4 == add(u3, toName, "friends", fromName)
      u5 == del(u4, fromName, "outgoing", toName)
  IN  del(u5, toName, "incoming", fromName)

\* the request test that also takes the caller's own request to toName
hasRequest_eitherSide(us, fromName, toName) ==
  toName \in us[fromName].incoming \/ toName \in us[fromName].outgoing

\* fromUser.incoming.has(toName)
hasRequest(us, fromName, toName) == toName \in us[fromName].incoming

\* the accepted event sent to the one who accepts
acceptEvents_toAcceptor(fromName, toName) ==
  emitIfOnline(fromName, "friendUpdate", fromName)
  \o emitIfOnline(toName, "friendUpdate", toName)
  \o emitIfOnline(fromName, "friendAccepted", toName)

\* the events of a successful POST /friends/accept, in program order
acceptEvents(fromName, toName) ==
  emitIfOnline(fromName, "friendUpdate", fromName)
  \o emitIfOnline(toName, "friendUpdate", toName)
  \o emitIfOnline(toName, "friendAccepted", fromName)

(* POST /friends/accept { from, to }: from accepts the request of to *)
FriendsAccept(from, to) ==
  LET fromName == normalize(from)
      toName   == normalize(to)
  IN
  /\ UNCHANGED <<onlineUsers, messages, diskWritable, now, open, username,
                 nextSocket>>
  /\ IF from = <<>> \/ to = <<>>
     THEN /\ last' = reply("accept", fromName, toName, 400, "Validation", <<>>)
          /\ UNCHANGED <<users, disk>>
          /\ emitted' = <<>>
     ELSE IF ~has(users, fromName) \/ ~has(users, toName)
     THEN /\ last' = reply("accept", fromName, toName, 404, "UnknownUser", <<>>)
          /\ UNCHANGED <<users, disk>>
          /\ emitted' = <<>>
     ELSE IF ~hasRequest(users, fromName, toName)
     THEN /\ last' = reply("accept", fromName, toName, 400, "NoSuchRequest", <<>>)
          /\ UNCHANGED <<users, disk>>
          /\ emitted' = <<>>
     ELSE /\ users' = acceptUpdate(users, fromName, toName)
          /\ emitted' = acceptEvents(fromName, toName)
          /\ disk' = saveToDisk(users', messages)
          /\ last' = reply("accept", fromName, toName, 200, "ok", <<>>)

\* add that does not clear the old requests
addUpdate_keepsRequests(us, fromName, toName) ==
  LET u1 == add(us, fromName, "friends", toName)
  IN  add(u1, toName, "friends", fromName)

\* add that clears the old requests on the caller's side only
addUpdate_clearsCallerOnly(us, fromName, toName) ==
  LET u1 == add(us, fromName, "friends", toName)
      u2 == add(u1, toName, "friends", fromName)
      u3 == del(u2, fromName, "incoming", toName)
  IN  del(u3, fromName, "outgoing", toName)

\* the Set updates of a successful POST /friends/add, in program order
addUpdate(us, fromName, toName) ==
  LET u1 == add(us, fromName, "friends", toName)
      u2 == add(u1, toName, "friends", fromName)
      u3 == del(u2, fromName, "incoming", toName)
      u4 == del(u3, fromName, "outgoing", toName)
      u5 == del(u4, toName, "incoming", fromName)
  IN  del(u5, toName, "outgoing", fromName)

\* an add that, finding the two already friends, ends the friendship
addEffect_toggles(us, fromName, toName) ==
  IF toName \in us[fromName].friends /\ fromName \in us[toName].friends
  THEN [users  |-> del(del(us, fromName, "friends", toName),
                       toName, "friends", fromName),
        result |-> "alreadyFriends"]
  ELSE [users |-> addUpdate(us, fromName, toName), result |-> "ok"]

\* what POST /friends/add does to two existing, distinct accounts: the store
\* it leaves and the branch it took
addEffect(us, fromName, toName) ==
  IF toName \in us[fromName].friends /\ fromName \in us[toName].friends
  THEN [users |-> us, result |-> "alreadyFriends"]
  ELSE [users |-> addUpdate(us, fromName, toName), result |-> "ok"]

(* POST /friends/add { from, to } *)
FriendsAdd(from, to) ==
  LET fromName == normalize(from)
      toName   == normalize(to)
      ensured  == ensureUser(ensureUser(users, fromName), toName)
      effect   == addEffect(ensured, fromName, toName)
  IN
  /\ UNCHANGED <<onlineUsers, messages, diskWritable, now, open, username,
                 nextSocket>>
  /\ IF from = <<>> \/ to = <<>>
     THEN /\ last' = reply("add", fromName, toName, 400, "Validation", <<>>)
          /\ UNCHANGED <<users, disk>>
          /\ emitted' = <<>>
     ELSE IF sameUser(fromName, toName)
     THEN /\ last' = reply("add", fromName, toName, 400, "SelfReference", <<>>)
          /\ UNCHANGED <<users, disk>>
          /\ emitted' = <<>>
     ELSE IF ~has(users, fromName) \/ ~has(users, toName)
     THEN /\ last' = reply("add", fromName, toName, 404, "UnknownUser", <<>>)
          /\ UNCHANGED <<users, disk>>
          /\ emitted' = <<>>
     ELSE IF effect.result # "ok"
     THEN /\ last' = reply("add", fromName, toName, 200, effect.result, <<>>)
          /\ users' = effect.users
          /\ UNCHANGED disk
          /\ emitted' = <<>>
     ELSE /\ users' = effect.users
          /\ disk' = saveToDisk(users', messages)
          /\ emitted' = emitIfOnline(fromName, "friendUpdate", fromName)
                        \o emitIfOnline(toName, "friendUpdate", toName)
          /\ last' = reply("add", fromName, toName, 200, "ok",
                           [friendsOfFrom |-> users'[fromName].friends,
                            friendsOfTo   |-> users'[toName].friends])

----------------------------------------------------------------------------
(* HTTP auth of the chat API: Authorization: Bearer <username> *)

\* an auth that lets the token of no account through
authMiddleware_anyToken(rawToken) ==
  LET token  == upToSpace(rawToken)
      userId == normalize(token)
  IN  IF token = <<>> THEN <<>>
      ELSE IF userId = <<>> THEN <<>>
      ELSE userId

\* req.userId when authMiddleware calls next(), <<>> when it answers 401
authMiddleware(rawToken) ==
  LET token  == upToSpace(rawToken)
      userId == normalize(token)
  IN  IF token = <<>> THEN <<>>
      ELSE IF userId = <<>> THEN <<>>
      ELSE IF ~has(users, userId) THEN <<>>
      ELSE userId

----------------------------------------------------------------------------
(* Helpers of the chat *)


\* an insertion that puts m before the elements it compares equal to
RECURSIVE insertSorted_beforeEqual(_, _)
insertSorted_beforeEqual(sorted, m) ==
  IF sorted = <<>> THEN <<m>>
  ELSE IF Head(sorted).createdAt - m.createdAt >= 0
       THEN <<m>> \o sorted
       ELSE <<Head(sorted)>> \o insertSorted_beforeEqual(Tail(sorted), m)

\* puts m behind every element of the sorted array that does not compare
\* greater than it
RECURSIVE insertSorted(_, _)
insertSorted(sorted, m) ==
  IF sorted = <<>> THEN <<m>>
  ELSE IF Head(sorted).createdAt - m.createdAt > 0
       THEN <<m>> \o sorted
       ELSE <<Head(sorted)>> \o insertSorted(Tail(sorted), m)

\* Array.prototype.sort((a, b) => a.createdAt - b.createdAt): stable
RECURSIVE sortByCreatedAt(_)
sortByCreatedAt(ms) ==
  IF ms = <<>> THEN <<>>
  ELSE insertSorted(sortByCreatedAt(SubSeq(ms, 1, Len(ms) - 1)), ms[Len(ms)])

getConversation(ms, userA, userB) ==
  LET between(m) == \/ (m.from = userA /\ m.to = userB)
                    \/ (m.from = userB /\ m.to = userA)
  IN  sortByCreatedAt(SelectSeq(ms, between))

\* contacts taken from the log only
getUserContacts_messagesOnly(us, ms, userId) ==
  ({ ms[i].to : i \in { j \in 1..Len(ms) : ms[j].from = userId } }
     \cup { ms[i].from : i \in { j \in 1..Len(ms) : ms[j].to = userId } })
  \ {userId}

\* the contacts of userId in the store ensureUser(userId) leaves
getUserContacts(us, ms, userId) ==
  (ensureUser(us, userId)[userId].friends
     \cup { ms[i].to : i \in { j \in 1..Len(ms) : ms[j].from = userId } }
     \cup { ms[i].from : i \in { j \in 1..Len(ms) : ms[j].to = userId } })
  \ {userId}

newMessage(id, from, to, text, createdAt) ==
  [id |-> id, from |-> from, to |-> to, text |-> text, createdAt |-> createdAt]

----------------------------------------------------------------------------
(* Chat API *)

(* GET /api/contacts *)
GetContacts(rawToken) ==
  LET userId == authMiddleware(rawToken) IN
  /\ UNCHANGED <<onlineUsers, messages, disk, diskWritable, now, open,
                 username, nextSocket>>
  /\ emitted' = <<>>
  /\ IF userId = <<>>
     THEN /\ last' = reply("contacts", userId, <<>>, 401, "Unauthorized", <<>>)
          /\ UNCHANGED users
     ELSE /\ users' = ensureUser(users, userId)
          /\ last' = reply("contacts", userId, <<>>, 200, "ok",
                           getUserContacts(users, messages, userId))

(* GET /api/messages/:contactId *)
GetMessages(rawToken, rawContactId) ==
  LET userId    == authMiddleware(rawToken)
      contactId == normalize(rawContactId)
  IN
  /\ UNCHANGED <<onlineUsers, messages, disk, diskWritable, now, open,
                 username, nextSocket>>
  /\ emitted' = <<>>
  /\ IF userId = <<>>
     THEN /\ last' = reply("conversation", userId, contactId, 401,
                           "Unauthorized", <<>>)
          /\ UNCHANGED users
     ELSE IF contactId = <<>> \/ ~has(users, contactId)
     THEN /\ last' = reply("conversation", userId, contactId, 404,
                           "NotFound", <<>>)
          /\ UNCHANGED users
     ELSE /\ users' = ensureUser(users, userId)
          /\ last' =
               IF ~isFriend(users', userId, contactId)
               THEN reply("conversation", userId, contactId, 403,
                          "NotFriends", <<>>)
               ELSE reply("conversation", userId, contactId, 200, "ok",
                          getConversation(messages, userId, contactId))

(* POST /api/messages { to, text } *)
PostMessage(rawToken, to, text, random) ==
  LET userId  == authMiddleware(rawToken)
      toName  == normalize(to)
      msgText == slice0(text, MAX_TEXT)
      msg     == newMessage(<<now, random>>, userId, toName, msgText, now)
  IN
  /\ UNCHANGED <<onlineUsers, diskWritable, now, open, username, nextSocket>>
  /\ IF userId = <<>>
     THEN /\ last' = reply("send", userId, toName, 401, "Unauthorized", <<>>)
          /\ UNCHANGED <<users, messages, disk>>
          /\ emitted' = <<>>
     ELSE IF to = <<>> \/ text = <<>> \/ trim(text) = <<>>
     THEN /\ last' = reply("send", userId, toName, 400, "EmptyText", <<>>)
          /\ UNCHANGED <<users, messages, disk>>
          /\ emitted' = <<>>
     ELSE IF ~has(users, toName)
     THEN /\ last' = reply("send", userId, toName, 404, "UnknownRecipient", <<>>)
          /\ UNCHANGED <<users, messages, disk>>
          /\ emitted' = <<>>
     ELSE /\ users' = ensureUser(users, userId)
          /\ IF ~isFriend(users', userId, toName)
             THEN /\ last' = reply("send", userId, toName, 403, "NotFriends", <<>>)
                  /\ UNCHANGED <<messages, disk>>
                  /\ emitted' = <<>>
             ELSE /\ Len(messages) < MaxMessages
                  /\ messages' = Append(messages, msg)
                  /\ disk' = saveToDisk(users', messages')
                  /\ emitted' = emitIfOnline(toName, "chatMessage", userId)
                  /\ last' = reply("send", userId, toName, 200, "ok", msg)

----------------------------------------------------------------------------
(* Socket.io *)

(* io.on('connection') *)
Connect(max) ==
  /\ nextSocket < max
  /\ nextSocket' = nextSocket + 1
  /\ open' = open \cup {nextSocket'}
  /\ username' = set(username, nextSocket', null)
  /\ last' = reply("connection", <<>>, <<>>, 0, "ok", nextSocket')
  /\ emitted' = <<>>
  /\ UNCHANGED <<users, onlineUsers, messages, disk, diskWritable, now>>

\* a register that enters the presence and leaves the identity store alone
SocketRegister_presenceOnly(socket, rawName) ==
  LET name == normalize(rawName) IN
  /\ socket \in open
  /\ emitted' = <<>>
  /\ UNCHANGED <<users, messages, disk, diskWritable, now, open, nextSocket>>
  /\ IF rawName = <<>>
     THEN /\ last' = reply("socketRegister", name, <<>>, 0, "ignored", socket)
          /\ UNCHANGED <<onlineUsers, username>>
     ELSE /\ username' = set(username, socket, name)
          /\ onlineUsers' = set(onlineUsers, name, socket)
          /\ last' = reply("socketRegister", name, <<>>, 0, "ok", socket)

(* socket.on('register', { username }) *)
SocketRegister(socket, rawName) ==
  LET name == normalize(rawName) IN
  /\ socket \in open
  /\ emitted' = <<>>
  /\ UNCHANGED <<messages, disk, diskWritable, now, open, nextSocket>>
  /\ IF rawName = <<>>
     THEN /\ last' = reply("socketRegister", name, <<>>, 0, "ignored", socket)
          /\ UNCHANGED <<users, onlineUsers, username>>
     ELSE /\ username' = set(username, socket, name)
          /\ users' = ensureUser(users, name)
          /\ onlineUsers' = set(onlineUsers, name, socket)
          /\ last' = reply("socketRegister", name, <<>>, 0, "ok", socket)

(* socket.on('chatMessage', { from, to, text, time }) *)
SocketChatMessage(socket, from, to, text, time, random) ==
  LET fromName == normalize(from)
      toName   == normalize(to)
      msgText  == slice0(text, MAX_TEXT)
      ts       == IF time # 0 THEN time ELSE now
      msg      == newMessage(<<now, random>>, fromName, toName, msgText, ts)
  IN
  /\ socket \in open
  /\ UNCHANGED <<onlineUsers, diskWritable, now, open, username, nextSocket>>
  /\ IF from = <<>> \/ to = <<>> \/ text = <<>> \/ trim(text) = <<>>
     THEN /\ last' = reply("chatMessage", fromName, toName, 0, "EmptyText", socket)
          /\ UNCHANGED <<users, messages, disk>>
          /\ emitted' = <<>>
     ELSE IF ~has(users, fromName) \/ ~has(users, toName)
     THEN /\ last' = reply("chatMessage", fromName, toName, 0, "UnknownUser", socket)
          /\ UNCHANGED <<users, messages, disk>>
          /\ emitted' = <<>>
     ELSE /\ users' = ensureUser(users, fromName)
          /\ IF ~isFriend(users', fromName, toName)
             THEN /\ last' = reply("chatMessage", fromName, toName, 0,
                                   "NotFriends", socket)
                  /\ UNCHANGED <<messages, disk>>
                  /\ emitted' = <<>>
             ELSE /\ Len(messages) < MaxMessages
                  /\ messages' = Append(messages, msg)
                  /\ disk' = saveToDisk(users', messages')
                  /\ emitted' = emitIfOnline(toName, "chatMessage", fromName)
                                \o <<emit(socket, "chatMessage", fromName)>>
                  /\ last' = reply("chatMessage", fromName, toName, 0, "ok", msg)

(* socket.on('callUser', { from, to, roomName }) *)
CallUser(socket, from, to, roomName) ==
  LET fromName == normalize(from)
      toName   == normalize(to)
      room     == trim(roomName)
  IN
  /\ socket \in open
  /\ UNCHANGED <<users, onlineUsers, messages, disk, diskWritable, now, open,
                 username, nextSocket>>
  /\ IF fromName = <<>> \/ toName = <<>> \/ room = <<>>
     THEN /\ last' = reply("callUser", fromName, toName, 0, "ignored", socket)
          /\ emitted' = <<>>
     ELSE /\ last' = reply("callUser", fromName, toName, 0, "ok", socket)
          /\ emitted' = emitIfOnline(toName, "incomingCall", fromName)

(* socket.on('answerCall', { from, to, roomName, accepted }) *)
AnswerCall(socket, from, to, roomName) ==
  LET fromName == normalize(from)
      toName   == normalize(to)
  IN
  /\ socket \in open
  /\ UNCHANGED <<users, onlineUsers, messages, disk, diskWritable, now, open,
                 username, nextSocket>>
  /\ last' = reply("answerCall", fromName, toName, 0, "ok", socket)
  /\ emitted' = emitIfOnline(toName, "callAnswered", fromName)

\* disconnect that removes the entry of its username whoever holds it
Disconnect_evictsAny(socket) ==
  /\ socket \in open
  /\ open' = open \ {socket}
  /\ username' = delete(username, socket)
  /\ onlineUsers' =
       IF username[socket] # null /\ username[socket] # <<>>
       THEN delete(onlineUsers, username[socket])
       ELSE onlineUsers
  /\ last' = reply("disconnect", username[socket], <<>>, 0, "ok", socket)
  /\ emitted' = <<>>
  /\ UNCHANGED <<users, messages, disk, diskWritable, now, nextSocket>>

(* socket.on('disconnect') *)
Disconnect(socket) ==
  /\ socket \in open
  /\ open' = open \ {socket}
  /\ username' = delete(username, socket)
  /\ onlineUsers' =
       IF /\ username[socket] # null
          /\ username[socket] # <<>>
          /\ socketOf(username[socket]) = socket
       THEN delete(onlineUsers, username[socket])
       ELSE onlineUsers
  /\ last' = reply("disconnect", username[socket], <<>>, 0, "ok", socket)
  /\ emitted' = <<>>
  /\ UNCHANGED <<users, messages, disk, diskWritable, now, nextSocket>>

----------------------------------------------------------------------------
(* Retention: setInterval(cleanupOldMessages, 1 h) *)

\* a prune that keeps the young messages, newest first
cleanupOldMessages_newestFirst ==
  LET cutoff    == now - MESSAGE_TTL_MS
      kept(m)   == m.createdAt > cutoff
      before    == Len(messages)
  IN
  /\ messages' = reverse(SelectSeq(messages, kept))
  /\ disk' = IF Len(messages') # before
             THEN saveToDisk(users, messages') ELSE disk
  /\ last' = reply("cleanup", <<>>, <<>>, 0, "ok", before - Len(messages'))
  /\ emitted' = <<>>
  /\ UNCHANGED <<users, onlineUsers, diskWritable, now, open, username,
                 nextSocket>>

cleanupOldMessages ==
  LET cutoff    == now - MESSAGE_TTL_MS
      kept(m)   == m.createdAt > cutoff
      before    == Len(messages)
  IN
  /\ messages' = SelectSeq(messages, kept)
  /\ disk' = IF Len(messages') # before
             THEN saveToDisk(users, messages') ELSE disk
  /\ last' = reply("cleanup", <<>>, <<>>, 0, "ok", before - Len(messages'))
  /\ emitted' = <<>>
  /\ UNCHANGED <<users, onlineUsers, diskWritable, now, open, username,
                 nextSocket>>

(* The clock advances between two handlers *)
Tick(t) ==
  /\ t > now
  /\ now' = t
  /\ UNCHANGED <<users, onlineUsers, messages, disk, diskWritable, open,
                 username, nextSocket, last, emitted>>

----------------------------------------------------------------------------
(* The process and its file *)

(* The process ends and starts again: empty maps, then loadFromDisk() *)
Restart ==
  /\ users' = loadFromDisk(disk).users
  /\ messages' = loadFromDisk(disk).messages
  /\ onlineUsers' = <<>>
  /\ open' = {}
  /\ username' = <<>>
  /\ last' = reply("start", <<>>, <<>>, 0, "ok", <<>>)
  /\ emitted' = <<>>
  /\ UNCHANGED <<disk, diskWritable, now, nextSocket>>

(* fs.writeFileSync starts to throw, or stops throwing *)
DiskFault ==
  /\ diskWritable' = ~diskWritable
  /\ UNCHANGED <<users, onlineUsers, messages, disk, now, open, username,
                 nextSocket, last, emitted>>

----------------------------------------------------------------------------

(* The relationship engine behind every entry point that writes the        *)
(* identity store: alice and bob register over HTTP, carol is known only    *)
(* through a live session.                                                  *)
Next ==
  \/ \E u \in {Missing, Alice, Bob}, p \in RegisterPasswords : Register(u, p)
  \/ \E u \in RawNames : GetFriends(u)
  \/ \E f \in RequestFrom, t \in RawNames : FriendsRequest(f, t)
  \/ \E f \in RawNames, t \in RawNames : FriendsAccept(f, t)
  \/ \E f \in RawNames, t \in RawNames : FriendsAdd(f, t)
  \/ Connect(MaxSessions)
  \/ \E s \in open, u \in {Missing, Carol} : SocketRegister(s, u)
  \/ \E k \in {<<>>, <<"A">>, <<"b", " ">>}, t \in RawNames,
        x \in {<<>>, <<"h", "i">>}, r \in RandomParts :
       PostMessage(k, t, x, r)
  \/ \E s \in open, f \in RawNames, t \in RawNames,
        x \in {<<>>, <<"h", "i">>}, r \in RandomParts :
       SocketChatMessage(s, f, t, x, 0, r)

Spec == Init /\ [][Next]_vars

(* The presence registry: sessions come, announce usernames and go *)
NextPresence ==
  \/ Connect(MaxSockets)
  \/ \E s \in open, u \in {Missing, Blank, Alice, Bob} : SocketRegister(s, u)
  \/ \E s \in open, t \in {Missing, Alice}, m \in RawRooms :
       CallUser(s, Bob, t, m)
  \/ \E s \in open, t \in {Missing, Alice} : AnswerCall(s, Bob, t, <<"r">>)
  \/ \E s \in open : Disconnect(s)

SpecPresence == Init /\ [][NextPresence]_vars

(* The message log: two friends write, read, and the retention timer runs *)
NextChat ==
  \/ \E u \in {Missing, Alice, Bob}, p \in RegisterPasswords : Register(u, p)
  \/ \E f \in {Alice, Bob}, t \in {Alice, Bob} : FriendsAdd(f, t)
  \/ \E k \in RawTokens : GetContacts(k)
  \/ \E k \in RawTokens, c \in {Missing, Alice, Bob} : GetMessages(k, c)
  \/ \E k \in RawTokens, t \in {Missing, Alice, Bob}, x \in RawTexts,
        r \in RandomParts :
       PostMessage(k, t, x, r)
  \/ Connect(MaxSessions)
  \/ \E s \in open, f \in {Missing, Alice, Bob}, t \in {Missing, Alice, Bob},
        x \in RawTexts, c \in ClientTimes, r \in RandomParts :
       SocketChatMessage(s, f, t, x, c, r)
  \/ cleanupOldMessages
  \/ \E t \in ClockInstants : Tick(t)

SpecChat == Init /\ [][NextChat]_vars

(* The event relay: alice and bob have accounts and sessions that come and  *)
(* go, and the friend handlers and the message route notify them.          *)
NextEvents ==
  \/ \E u \in {Alice, Bob} : Register(u, <<"p">>)
  \/ Connect(MaxSockets)
  \/ \E s \in open, u \in {Alice, Bob} : SocketRegister(s, u)
  \/ \E s \in open : Disconnect(s)
  \/ \E f \in {Alice, Bob}, t \in {Alice, Bob} : FriendsRequest(f, t)
  \/ \E f \in {Alice, Bob}, t \in {Alice, Bob} : FriendsAccept(f, t)
  \/ \E f \in {Alice, Bob}, t \in {Alice, Bob} : FriendsAdd(f, t)
  \/ \E k \in {<<"A">>, <<"b", " ">>}, t \in {Alice, Bob}, r \in RandomParts :
       PostMessage(k, t, <<"h", "i">>, r)
  \/ \E s \in open, f \in {Alice, Bob}, t \in {Alice, Bob}, r \in RandomParts :
       SocketChatMessage(s, f, t, <<"h", "i">>, 0, r)

SpecEvents == Init /\ [][NextEvents]_vars

\* the usernames sent to /register and /login
AccountNames == {Missing, Blank, Alice, <<"a">>, Bob, Carol}

(* The identity store behind /register and /login: alice, bob and the      *)
(* blank name register, carol exists through her session only.             *)
NextAccounts ==
  \/ \E u \in AccountNames \ {Carol}, p \in LoginPasswords : Register(u, p)
  \/ \E u \in AccountNames, p \in LoginPasswords : Login(u, p)
  \/ Connect(MaxSessions)
  \/ \E s \in open : SocketRegister(s, Carol)
  \/ \E f \in {Alice, Bob}, t \in {Alice, Bob} : FriendsAdd(f, t)

SpecAccounts == Init /\ [][NextAccounts]_vars

(* Durability: the handlers that save, a file system that may refuse the   *)
(* write, and restarts of the process.                                     *)
NextDurable ==
  \/ \E u \in {Alice, Bob, Proto} : Register(u, <<"p">>)
  \/ Connect(MaxSessions)
  \/ \E s \in open : SocketRegister(s, Carol)
  \/ \E f \in {Alice, Bob}, t \in {Alice, Bob, Carol} : FriendsRequest(f, t)
  \/ \E f \in {Alice, Bob}, t \in {Alice, Bob} : FriendsAdd(f, t)
  \/ \E t \in {Alice, Bob}, r \in RandomParts :
       PostMessage(<<"A">>, t, <<"h", "i">>, r)
  \/ DiskFault
  \/ Restart

SpecDurable == Init /\ [][NextDurable]_vars

\* the three who write to each other
Writers == {Alice, Bob, Carol}

(* The log of three accounts: alice befriends bob and carol,                *)
(* all write over both surfaces with clocks of their own, read their        *)
(* conversations and contacts, and the retention timer runs.                *)
NextLog ==
  \/ \E u \in Writers : Register(u, <<"p">>)
  \/ \E t \in Writers : FriendsAdd(Alice, t)
  \/ \E k \in {<<"A">>, <<"b", " ">>} : GetContacts(k)
  \/ \E k \in {<<"A">>, <<"b", " ">>}, n \in Writers : GetMessages(k, n)
  \/ \E k \in {<<"A">>, <<"b", " ">>}, t \in Writers, r \in RandomParts :
       PostMessage(k, t, <<"h", "i">>, r)
  \/ Connect(MaxSessions)
  \/ \E s \in open : SocketRegister(s, Carol)
  \/ \E s \in open, f \in Writers, t \in Writers, n \in ClientTimes,
        r \in RandomParts :
       SocketChatMessage(s, f, t, <<"h", "i">>, n, r)
  \/ cleanupOldMessages
  \/ Tick(MESSAGE_TTL_MS + 1)

SpecLog == Init /\ [][NextLog]_vars

(* Reloading the file: alice asks and befriends bob and the account         *)
(* __proto__, writes to them, and the process starts again from its file.   *)
NextReload ==
  \/ \E u \in {Alice, Bob, Proto} : Register(u, <<"p">>)
  \/ \E t \in {Bob, Proto} : FriendsRequest(Alice, t)
  \/ \E t \in {Bob, Proto} : FriendsAdd(Alice, t)
  \/ \E t \in {Bob, Proto}, r \in RandomParts :
       PostMessage(<<"A">>, t, <<"h", "i">>, r)
  \/ Restart

SpecReload == Init /\ [][NextReload]_vars

(* Credentials: alice registers, carol registers or is created by a        *)
(* session, both try passwords, and the process may start again.            *)
NextLogin ==
  \/ \E u \in {Alice, Carol}, p \in {<<"p">>, <<"q">>} : Register(u, p)
  \/ \E u \in {Alice, Carol}, p \in Credentials : Login(u, p)
  \/ Connect(MaxSessions)
  \/ \E s \in open : SocketRegister(s, Carol)
  \/ Restart

SpecLogin == Init /\ [][NextLogin]_vars

(* Reads and relays: the store of two accounts fills while every read      *)
(* route and both call relays run against it.                               *)
NextReads ==
  \/ \E u \in {Alice, Bob} : Register(u, <<"p">>)
  \/ FriendsAdd(Alice, Bob)
  \/ \E r \in RandomParts : PostMessage(<<"A">>, Bob, <<"h", "i">>, r)
  \/ Connect(MaxSessions)
  \/ \E s \in open : SocketRegister(s, Bob)
  \/ \E u \in {Missing, Alice, Carol} : GetFriends(u)
  \/ \E k \in RawTokens : GetContacts(k)
  \/ \E k \in RawTokens, n \in {Missing, Alice, Bob} : GetMessages(k, n)
  \/ \E s \in open, t \in {Missing, Bob}, m \in RawRooms :
       CallUser(s, Alice, t, m)
  \/ \E s \in open, t \in {Missing, Bob} : AnswerCall(s, Alice, t, <<"r">>)

SpecReads == Init /\ [][NextReads]_vars

(* The text of a message: two friends send short, full-length and too long  *)
(* texts over both surfaces.                                                *)
NextText ==
  \/ \E u \in {Alice, Bob} : Register(u, <<"p">>)
  \/ \E t \in {Alice, Bob} : FriendsAdd(Alice, t)
  \/ \E k \in {<<"A">>, <<"b", " ">>}, t \in {Alice, Bob}, x \in SizedTexts,
        r \in RandomParts :
       PostMessage(k, t, x, r)
  \/ Connect(MaxSessions)
  \/ \E s \in open, f \in {Alice, Bob}, t \in {Alice, Bob}, x \in SizedTexts,
        r \in RandomParts :
       SocketChatMessage(s, f, t, x, 0, r)

SpecText == Init /\ [][NextText]_vars

----------------------------------------------------------------------------
(* Claims *)

a == normalize(Alice)
b == normalize(Bob)
c == normalize(Carol)

accounts == DOMAIN users

\* the account a raw name, and a bearer token, stand for
nameOf  == [y \in RawNames \cup RequestFrom |-> normalize(y)]
tokenOf == [y \in RawTokens |-> normalize(upToSpace(y))]

\* the texts that are not blank
wordy == {y \in RawTexts : trim(y) # <<>>}

friends(A)  == users[A].friends
incoming(A) == users[A].incoming
outgoing(A) == users[A].outgoing

\* C1: from the empty store, after any sequence of register, session
\* register, request, accept, direct add and message operations, A is a
\* friend of B if and only if B is a friend of A.
C1_FriendshipSymmetric ==
  \A A \in accounts, B \in accounts : (A \in friends(B)) <=> (B \in friends(A))

\* alice is a friend of bob and of carol, whom only a session announced, and
\* a message was sent
C1_Witness ==
  /\ {a, b, c} \subseteq accounts
  /\ users[c].password = null
  /\ {b, c} \subseteq friends(a)
  /\ messages # <<>>

\* C2: no counterparty of an account is in its friends and, at the same time,
\* in its incoming or its outgoing requests.
C2_FriendsNotPending ==
  \A A \in accounts : friends(A) \cap (incoming(A) \cup outgoing(A)) = {}

\* a direct add went through while another request of alice is still pending
C2_Witness ==
  /\ last.op = "add" /\ last.result = "ok"
  /\ \E A \in accounts : friends(A) # {} /\ outgoing(A) # {}

\* C3: no account is its own friend; accept makes no from = to test, but a
\* self-accept never goes through, because no account is in its own incoming.
C3_NoSelfFriend ==
  /\ \A A \in accounts : A \notin friends(A) /\ A \notin incoming(A)
  /\ (last.op = "accept" /\ last.status = 200) => last.from # last.to

\* an accept was refused for want of a request, in a store that holds
\* friendships
C3_Witness ==
  /\ last.op = "accept" /\ last.result = "NoSuchRequest"
  /\ \E A \in accounts : friends(A) # {}

\* C4: when accept(from, to) goes through, from and to are friends of each
\* other and neither is in the other's incoming or outgoing.
C4_AcceptMakesFriends ==
  (last.op = "accept" /\ last.status = 200) =>
    /\ last.from \in friends(last.to)
    /\ last.to \in friends(last.from)
    /\ last.from \notin incoming(last.to) \cup outgoing(last.to)
    /\ last.to \notin incoming(last.from) \cup outgoing(last.from)

\* carol accepted a request of an account that has a password
C4_Witness ==
  /\ last.op = "accept" /\ last.status = 200
  /\ last.from = c
  /\ users[last.to].password # null

\* C5: a disconnect of session S removes the presence entry of the username
\* S announced only if that entry still points at S; when a session S2 took
\* the username over in the meantime, it stays mapped to S2.  No other entry
\* changes.
C5_DisconnectKeepsNewerSession ==
  [][\A s \in open :
       Disconnect(s) =>
         /\ \A u \in DOMAIN onlineUsers :
              \/ u \in DOMAIN onlineUsers' /\ onlineUsers'[u] = onlineUsers[u]
              \/ u = username[s] /\ onlineUsers[u] = s
         /\ DOMAIN onlineUsers' \subseteq DOMAIN onlineUsers]_vars

\* session 1 announced alice, session 2 took alice over, session 1 went
C5_Witness ==
  /\ last.op = "disconnect" /\ last.body = 1 /\ last.from = a
  /\ has(onlineUsers, a) /\ onlineUsers[a] = 2
  /\ 2 \in open

\* C6: for two accounts A and B and a text that is not blank, append(A, B,
\* text) is refused as NotFriends whenever B is not a friend of A, whatever
\* the log holds, on POST /api/messages and on the chatMessage event alike,
\* and the log stays as it was.  (Stated contrapositively: a step of either
\* handler that ends otherwise is the step of no such call.)
C6_NotFriendsRefused ==
  [][((last'.op = "send"
       /\ ~(last'.result = "NotFriends" /\ last'.status = 403
            /\ messages' = messages)) =>
        \A k \in RawTokens, t \in RawNames :
          ( /\ tokenOf[k] # <<>>
            /\ tokenOf[k] \in accounts /\ nameOf[t] \in accounts
            /\ nameOf[t] \notin friends(tokenOf[k]) ) =>
            \A x \in wordy, r \in RandomParts : ~PostMessage(k, t, x, r))
     /\
     ((last'.op = "chatMessage"
       /\ ~(last'.result = "NotFriends" /\ messages' = messages
            /\ emitted' = <<>>)) =>
        \A f \in RawNames, t \in RawNames :
          ( /\ nameOf[f] \in accounts /\ nameOf[t] \in accounts
            /\ nameOf[t] \notin friends(nameOf[f]) ) =>
            \A s \in open, x \in wordy, ct \in ClientTimes, r \in RandomParts :
              ~SocketChatMessage(s, f, t, x, ct, r))]_vars

\* a send was refused as NotFriends although the log holds a message
C6_Witness ==
  /\ last.op = "send" /\ last.result = "NotFriends"
  /\ messages # <<>>

\* C7: a prune at `now` removes the messages older than MESSAGE_TTL_MS and
\* keeps every message whose age is at most MESSAGE_TTL_MS, the age
\* MESSAGE_TTL_MS itself included.
C7_TTLLaw ==
  [][cleanupOldMessages =>
       LET young(m) == now - m.createdAt <= MESSAGE_TTL_MS
       IN  messages' = SelectSeq(messages, young)]_vars

\* C8: after every operation that changes the identity store or the message
\* log, data.json holds the store and the log as they are in memory (while
\* writes succeed).
C8_WriteThrough ==
  diskWritable =>
    loadFromDisk(disk) = [users |-> users, messages |-> messages]

pendingBetween(us, A, B) ==
  \/ B \in us[A].incoming \cup us[A].outgoing
  \/ A \in us[B].incoming \cup us[B].outgoing

\* C9: no step of the server takes a pending request between A and B away
\* without both friend edges being there in the same step, and GET /friends
\* answers with the sets of one state of the store.
C9_PendingToFriendsAtomic ==
  [][(\A A \in accounts, B \in accounts :
        (pendingBetween(users, A, B) /\ ~pendingBetween(users', A, B))
        => (B \in users'[A].friends /\ A \in users'[B].friends))
     /\
     ((last'.op = "friends" /\ last'.status = 200)
        => ( /\ users' = users
             /\ last'.body = [friends  |-> users[last'.from].friends,
                              incoming |-> users[last'.from].incoming,
                              outgoing |-> users[last'.from].outgoing] ))]_vars

\* GET /friends showed a friend to an account that has a request pending
C9_Witness ==
  /\ last.op = "friends" /\ last.status = 200
  /\ last.body.friends # {}
  /\ last.body.incoming # {}

\* C10: request(A, B) right after a request(A, B) that went through is
\* answered 200 and changes nothing: not the identity store, not data.json,
\* and no event goes out.
C10_RequestTwice ==
  [][(last.op = "request" /\ last.status = 200 /\ last'.op = "request") =>
       \A f \in RawNames, t \in RawNames :
         ( /\ last.from = normalize(f) /\ last.to = normalize(t)
           /\ FriendsRequest(f, t) )
         => ( /\ last'.status = 200
              /\ last'.result \in {"alreadyPending", "alreadyFriends"}
              /\ users' = users
              /\ disk' = disk
              /\ emitted' = <<>> )]_vars

\* the requester asked again while the request is pending with carol, who is
\* live
C10_Witness ==
  /\ last.op = "request" /\ last.result = "alreadyPending"
  /\ last.to = c /\ has(onlineUsers, c)
  /\ c \in outgoing(last.from)

\* C11: request(from, to) between two accounts that already have a request
\* pending, in either direction, is answered 200 and changes no friends,
\* incoming or outgoing set; after crossing requests A->B and B->A, in either
\* order, the two directions are never both pending and no friendship exists
\* that was not there before.
C11_RequestOverPending ==
  [][(last'.op = "request") =>
       /\ \A A \in DOMAIN users', B \in DOMAIN users' :
            ~(B \in users'[A].outgoing /\ A \in users'[B].outgoing)
       /\ \A f \in RawNames, t \in RawNames :
            ( /\ nameOf[f] \in accounts /\ nameOf[t] \in accounts
              /\ pendingBetween(users, nameOf[f], nameOf[t])
              /\ FriendsRequest(f, t) ) =>
              ( /\ last'.status = 200 /\ last'.result = "alreadyPending"
                /\ users' = users /\ disk' = disk /\ emitted' = <<>> )]_vars

\* the crossing request: to had asked from, then from asks to
C11_Witness ==
  /\ last.op = "request" /\ last.result = "alreadyPending"
  /\ last.from \in outgoing(last.to)
  /\ last.to \notin outgoing(last.from)

\* C12: add(from, to) on two distinct existing accounts is answered 200 and
\* leaves them friends of each other with no request pending between them,
\* in from.incoming, from.outgoing, to.incoming or to.outgoing, whatever was
\* pending before.
C12_AddMakesFriends ==
  [][(last'.op = "add") =>
       \A f \in RawNames, t \in RawNames :
         ( /\ nameOf[f] \in accounts /\ nameOf[t] \in accounts
           /\ nameOf[f] # nameOf[t]
           /\ FriendsAdd(f, t) ) =>
           ( /\ last'.status = 200
             /\ nameOf[t] \in users'[nameOf[f]].friends
             /\ nameOf[f] \in users'[nameOf[t]].friends
             /\ ~pendingBetween(users', nameOf[f], nameOf[t]) )]_vars

\* an add went through between two accounts while a request of a third
\* party is still pending with the caller
C12_Witness ==
  /\ last.op = "add" /\ last.result = "ok"
  /\ last.to \in friends(last.from)
  /\ incoming(last.from) # {}

\* C13: add(A, B) right after an add(A, B) that went through leaves the
\* friends, incoming and outgoing sets of every account as they were.
C13_AddTwice ==
  [][(last.op = "add" /\ last.status = 200 /\ last'.op = "add") =>
       \A f \in RawNames, t \in RawNames :
         ( /\ last.from = nameOf[f] /\ last.to = nameOf[t]
           /\ FriendsAdd(f, t) ) =>
           ( last'.status = 200 /\ users' = users )]_vars

\* the second add of a pair found them friends
C13_Witness ==
  /\ last.op = "add" /\ last.result = "alreadyFriends"
  /\ last.to \in friends(last.from) /\ last.from \in friends(last.to)

\* C14: request(from, to) with both names given is refused as SelfReference
\* when the normalised names are equal, and as UnknownUser when they differ
\* and one of the two is no account; in both cases the identity store and
\* data.json stay as they were and no event goes out.
C14_RequestRefused ==
  [][(last'.op = "request") =>
       \A f \in RequestFrom \ {Missing}, t \in RawNames \ {Missing} :
         FriendsRequest(f, t) =>
           /\ (nameOf[f] = nameOf[t]) =>
                ( /\ last'.status = 400 /\ last'.result = "SelfReference"
                  /\ users' = users /\ disk' = disk /\ emitted' = <<>> )
           /\ ( /\ nameOf[f] # nameOf[t]
                /\ (nameOf[f] \notin accounts \/ nameOf[t] \notin accounts) ) =>
                ( /\ last'.status = 404 /\ last'.result = "UnknownUser"
                  /\ users' = users /\ disk' = disk /\ emitted' = <<>> )]_vars

\* a self request was refused while alice exists and carol is live
C14_Witness ==
  /\ last.op = "request" /\ last.result = "SelfReference"
  /\ a \in accounts /\ has(onlineUsers, c)
  /\ emitted = <<>>

\* C15: accept(from, to) with both names given is refused as UnknownUser when
\* one of the two is no account, and as NoSuchRequest whenever to is not in
\* incoming(from), also when from is the one who made the request and tries
\* to accept it; a refused accept changes no friends, incoming or outgoing
\* set.
C15_AcceptRefused ==
  [][(last'.op = "accept") =>
       /\ (last'.status # 200) => (users' = users /\ disk' = disk)
       /\ \A f \in RawNames \ {Missing}, t \in RawNames \ {Missing} :
            FriendsAccept(f, t) =>
              /\ (nameOf[f] \notin accounts \/ nameOf[t] \notin accounts) =>
                   (last'.status = 404 /\ last'.result = "UnknownUser")
              /\ ( /\ nameOf[f] \in accounts /\ nameOf[t] \in accounts
                   /\ nameOf[t] \notin incoming(nameOf[f]) ) =>
                   (last'.status = 400 /\ last'.result = "NoSuchRequest")]_vars

\* an accept was refused for want of a request while requests are pending
C15_Witness ==
  /\ last.op = "accept" /\ last.result = "NoSuchRequest"
  /\ \E A \in accounts : outgoing(A) # {}
  /\ \A A \in accounts : friends(A) = {}

\* C16: once a live session has announced register{username} for carol, who
\* never registered over HTTP, carol is an account: request(from, carol) of
\* an existing account is answered 200 instead of UnknownUser, and when
\* nothing was between the two it records carol in from.outgoing and from in
\* carol.incoming.
C16_LazyAccount ==
  [][(last'.op = "request" /\ has(onlineUsers, c)) =>
       /\ c \in accounts
       /\ \A f \in RequestFrom :
            ( /\ nameOf[f] \in accounts \ {c}
              /\ FriendsRequest(f, Carol) ) =>
              /\ last'.status = 200
              /\ ( /\ ~pendingBetween(users, nameOf[f], c)
                   /\ c \notin friends(nameOf[f]) ) =>
                   ( /\ last'.result = "ok"
                     /\ c \in users'[nameOf[f]].outgoing
                     /\ nameOf[f] \in users'[c].incoming )]_vars

\* a request to carol, known through her session only, was recorded
C16_Witness ==
  /\ last.op = "request" /\ last.result = "ok" /\ last.to = c
  /\ has(onlineUsers, c) /\ users[c].password = null
  /\ last.from \in incoming(c)
  /\ disk.exists /\ c \in DOMAIN disk.users

\* the events a handler sends, by the operation it serves
eventsOf(op) ==
  CASE op = "request"     -> {"friendRequest"}
    [] op = "accept"      -> {"friendUpdate", "friendAccepted"}
    [] op = "add"         -> {"friendUpdate"}
    [] op = "send"        -> {"chatMessage"}
    [] op = "chatMessage" -> {"chatMessage"}
    [] op = "callUser"    -> {"incomingCall"}
    [] op = "answerCall"  -> {"callAnswered"}
    [] OTHER              -> {}

\* the sockets that usernames are mapped to
liveSockets == {onlineUsers[n] : n \in DOMAIN onlineUsers}

\* C17: the relay keeps no queue.  Every event a handler sends belongs to the
\* call it serves and goes to a socket that a username is mapped to at that
\* moment (chatMessage also answers the sending socket); an event for a
\* username without presence entry is not sent, and a later register of that
\* username sends nothing; the call writes the stores as it would with the
\* recipient live, and the register writes neither the log nor data.json.
C17_NoQueue ==
  [][/\ \A i \in DOMAIN emitted' :
          /\ emitted'[i].event \in eventsOf(last'.op)
          /\ emitted'[i].from \in {last'.from, last'.to}
          /\ \/ emitted'[i].to \in liveSockets
             \/ last'.op = "chatMessage" /\ emitted'[i].to \in open
     /\ ( /\ last'.op \in {"request", "send"} /\ last'.result = "ok"
          /\ ~has(onlineUsers, last'.to) ) => (emitted' = <<>>)
     /\ ( /\ last'.op = "chatMessage" /\ last'.result = "ok"
          /\ ~has(onlineUsers, last'.to) ) => (Len(emitted') = 1)
     /\ (last'.op = "socketRegister") =>
          (emitted' = <<>> /\ messages' = messages /\ disk' = disk)
     /\ (last'.op = "request" /\ last'.result = "ok") =>
          ( /\ users' = add(add(users, last'.from, "outgoing", last'.to),
                            last'.to, "incoming", last'.from)
            /\ messages' = messages )
     /\ (last'.op \in {"send", "chatMessage"} /\ last'.result = "ok") =>
          ( /\ users' = users
            /\ messages' = Append(messages, last'.body) )]_vars

\* alice, who has a request of bob waiting, registers the only session there
\* is, and nothing is sent
C17_Witness ==
  /\ last.op = "socketRegister" /\ last.result = "ok" /\ last.from = a
  /\ b \in incoming(a)
  /\ onlineUsers = (a :> 1) /\ nextSocket = 1
  /\ emitted = <<>>

\* emitted holds the event e
sent(e) == \E i \in DOMAIN emitted : emitted[i] = e

\* C18: a new request(from, to) that went through has recorded to in
\* from.outgoing and from in to.incoming, whether or not to is live, and has
\* sent friendRequest{from} to the socket of to if and only if to has a
\* presence entry; nothing else was sent.
C18_RequestNotifies ==
  (last.op = "request" /\ last.result = "ok") =>
    /\ last.to \in outgoing(last.from)
    /\ last.from \in incoming(last.to)
    /\ emitted = IF has(onlineUsers, last.to)
                 THEN <<[to |-> onlineUsers[last.to], event |-> "friendRequest",
                         from |-> last.from]>>
                 ELSE <<>>

\* the request reached a live recipient while the caller has no session
C18_Witness ==
  /\ last.op = "request" /\ last.result = "ok"
  /\ has(onlineUsers, last.to) /\ ~has(onlineUsers, last.from)
  /\ emitted # <<>>
  /\ last.from \in incoming(last.to)

\* C19: an accept(from, to) that went through has sent friendUpdate to each
\* of the two that is live and friendAccepted{from} to the requester to if
\* live; friendAccepted goes nowhere but to the socket of to, so the one who
\* accepts, on a socket of its own, does not get it; a refused accept sends
\* nothing.
C19_AcceptNotifies ==
  (last.op = "accept") =>
    IF last.status # 200 THEN emitted = <<>>
    ELSE
      /\ \A p \in {last.from, last.to} :
           has(onlineUsers, p) =>
             sent([to |-> onlineUsers[p], event |-> "friendUpdate", from |-> p])
      /\ has(onlineUsers, last.to) =>
           sent([to |-> onlineUsers[last.to], event |-> "friendAccepted",
                 from |-> last.from])
      /\ \A i \in DOMAIN emitted :
           /\ emitted[i].event \in {"friendUpdate", "friendAccepted"}
           /\ emitted[i].to \in {socketOf(last.from), socketOf(last.to)} \ {0}
           /\ (emitted[i].event = "friendAccepted") =>
                /\ emitted[i].to = socketOf(last.to)
                /\ emitted[i].from = last.from
      /\ Len(emitted) <= 3

\* both parties of the accept are live, each on its own socket
C19_Witness ==
  /\ last.op = "accept" /\ last.status = 200
  /\ has(onlineUsers, last.from) /\ has(onlineUsers, last.to)
  /\ onlineUsers[last.from] # onlineUsers[last.to]
  /\ Len(emitted) = 3

\* C20: register(username, credential) with both given is refused as
\* AlreadyExists whenever the normalised username is an account, and the
\* account stays as it is; login with both given is refused as NotFound when
\* the username is no account and as BadCredential when the credential is
\* not the stored one; a login changes no state.
C20_AccountErrors ==
  [][/\ (last'.op = "register") =>
          \A u \in AccountNames \ {Missing}, p \in LoginPasswords \ {<<>>} :
            (normalize(u) \in accounts /\ Register(u, p)) =>
              ( /\ last'.status = 409 /\ last'.result = "AlreadyExists"
                /\ users' = users /\ disk' = disk )
     /\ (last'.op = "login") =>
          /\ users' = users /\ disk' = disk /\ messages' = messages
          /\ onlineUsers' = onlineUsers
          /\ \A u \in AccountNames \ {Missing}, p \in LoginPasswords \ {<<>>} :
               Login(u, p) =>
                 /\ (normalize(u) \notin accounts) =>
                      (last'.status = 404 /\ last'.result = "NotFound")
                 /\ ( /\ normalize(u) \in accounts
                      /\ users[normalize(u)].password # p ) =>
                      (last'.status = 401 /\ last'.result = "BadCredential")]_vars

\* a register was refused for a taken name while accounts have friends and
\* carol has no password
C20_Witness ==
  /\ last.op = "register" /\ last.result = "AlreadyExists"
  /\ a \in accounts /\ b \in friends(a)
  /\ c \in accounts /\ users[c].password = null

\* C21: the snapshot of any reachable state, loaded again, gives the same
\* identity store (usernames, credentials, friends, incoming and outgoing
\* sets) and the same messages in the same order.
C21_RoundTrip ==
  loadFromDisk(payload(users, messages)) =
    [users |-> users, messages |-> messages]

\* C22: while writes to data.json fail, the operation that triggers the
\* snapshot is still answered as a success and what it wrote in memory
\* stays: the account of a register, the pending edges of a request, the
\* friend edges of an add, the message of a send; the file is left as it
\* was.
C22_WriteFailureTolerated ==
  [][(~diskWritable) =>
       /\ disk' = disk
       /\ (last'.op = "register") =>
            \A u \in {Alice, Bob, Proto} :
              (normalize(u) \notin accounts /\ Register(u, <<"p">>)) =>
                ( /\ last'.status = 200 /\ last'.result = "ok"
                  /\ has(users', normalize(u))
                  /\ users'[normalize(u)].password = <<"p">> )
       /\ (last'.op = "request") =>
            \A f \in {Alice, Bob}, t \in {Alice, Bob, Carol} :
              ( /\ nameOf[f] \in accounts /\ nameOf[t] \in accounts
                /\ nameOf[f] # nameOf[t]
                /\ ~pendingBetween(users, nameOf[f], nameOf[t])
                /\ nameOf[t] \notin friends(nameOf[f])
                /\ FriendsRequest(f, t) ) =>
                ( /\ last'.status = 200 /\ last'.result = "ok"
                  /\ nameOf[t] \in users'[nameOf[f]].outgoing
                  /\ nameOf[f] \in users'[nameOf[t]].incoming )
       /\ (last'.op = "add") =>
            \A f \in {Alice, Bob}, t \in {Alice, Bob} :
              ( /\ nameOf[f] \in accounts /\ nameOf[t] \in accounts
                /\ nameOf[f] # nameOf[t]
                /\ FriendsAdd(f, t) ) =>
                ( /\ last'.status = 200
                  /\ nameOf[t] \in users'[nameOf[f]].friends
                  /\ nameOf[f] \in users'[nameOf[t]].friends )
       /\ (last'.op = "send") =>
            \A t \in {Alice, Bob}, r \in RandomParts :
              ( /\ a \in accounts /\ nameOf[t] \in accounts
                /\ nameOf[t] \in friends(a)
                /\ PostMessage(<<"A">>, t, <<"h", "i">>, r) ) =>
                ( /\ last'.status = 200 /\ last'.result = "ok"
                  /\ messages' = Append(messages, last'.body) )]_vars

\* a register was answered 200 while the write failed: the account is in
\* users and not in data.json
C22_Witness ==
  /\ ~diskWritable
  /\ last.op = "register" /\ last.status = 200
  /\ last.from \in accounts /\ last.from # Proto
  /\ last.from \notin DOMAIN disk.users

\* the positions of the log whose sender and recipient are A and B
between(A, B) ==
  {j \in 1..Len(messages) : {messages[j].from, messages[j].to} = {A, B}}

\* the place of position j among them by creation time, then by position
rank(A, B, j) ==
  Cardinality({i \in between(A, B) :
                 \/ messages[i].createdAt < messages[j].createdAt
                 \/ /\ messages[i].createdAt = messages[j].createdAt
                    /\ i <= j})

\* C23: the conversation GET /api/messages/:contactId answers holds exactly
\* the logged messages between the two, ascending by createdAt, equal
\* createdAt in the order of the log, also when the times sent with
\* chatMessage go against the order of the log.
C23_Conversation ==
  (last.op = "conversation" /\ last.status = 200) =>
    /\ Len(last.body) = Cardinality(between(last.from, last.to))
    /\ \A j \in between(last.from, last.to) :
         last.body[rank(last.from, last.to, j)] = messages[j]

\* a conversation of two messages is answered in the reverse of the order
\* of the log
C23_Witness ==
  /\ last.op = "conversation" /\ last.status = 200
  /\ Len(messages) = 2 /\ Len(last.body) = 2
  /\ messages[1].createdAt > messages[2].createdAt
  /\ last.body = <<messages[2], messages[1]>>

\* s is t with some elements left out
RECURSIVE isSubsequence(_, _)
isSubsequence(s, t) ==
  IF s = <<>> THEN TRUE
  ELSE IF t = <<>> THEN FALSE
  ELSE IF Head(s) = Head(t) THEN isSubsequence(Tail(s), Tail(t))
  ELSE isSubsequence(s, Tail(t))

\* C24: a prune only leaves messages out: the messages that stay are in the
\* log in the order they had, with every field as it was, and the prune
\* changes neither the identity store nor the presence registry.
C24_PruneIsFilter ==
  [][cleanupOldMessages =>
       /\ isSubsequence(messages', messages)
       /\ users' = users
       /\ onlineUsers' = onlineUsers /\ username' = username
       /\ open' = open]_vars

\* a prune removed one message and kept one, while carol is live
C24_Witness ==
  /\ last.op = "cleanup" /\ last.body = 1
  /\ Len(messages) = 1
  /\ has(onlineUsers, c)

\* those who are sender or recipient of a logged message with A
wroteWith(A) ==
  {n \in {messages[j].from : j \in 1..Len(messages)}
          \cup {messages[j].to : j \in 1..Len(messages)} :
     \E j \in 1..Len(messages) : {messages[j].from, messages[j].to} = {A, n}}

\* C25: the contacts GET /api/contacts answers for a username are its
\* friends together with everyone who is sender or recipient of a logged
\* message with it, the username itself left out.
C25_Contacts ==
  (last.op = "contacts" /\ last.status = 200) =>
    last.body = (friends(last.from) \cup wroteWith(last.from)) \ {last.from}

\* alice has two contacts, one she wrote with and one she did not
C25_Witness ==
  /\ last.op = "contacts" /\ last.status = 200 /\ last.from = a
  /\ last.body = {b, c}
  /\ wroteWith(a) = {b}

\* s has no blank at either end and no upper-case letter
isNormalized(s) ==
  /\ (s # <<>>) => (s[1] # " " /\ s[Len(s)] # " ")
  /\ \A i \in 1..Len(s) : s[i] \notin {"A", "B", "C", "H"}

\* C26: from the empty store on, every key of the identity store, every key
\* of the presence registry, every member of a friends, incoming or outgoing
\* set and every sender and recipient of a message is a normalised username,
\* whatever the callers typed.
C26_NormalizedKeys ==
  /\ \A n \in DOMAIN users :
       /\ isNormalized(n)
       /\ \A m \in users[n].friends \cup users[n].incoming
                     \cup users[n].outgoing : isNormalized(m)
  /\ \A n \in DOMAIN onlineUsers : isNormalized(n)
  /\ \A j \in 1..Len(messages) :
       isNormalized(messages[j].from) /\ isNormalized(messages[j].to)

\* accounts typed as " A" and "C ", friends, one of them live, wrote to each
\* other
C26_Witness ==
  /\ {a, c} \subseteq accounts
  /\ has(onlineUsers, c) /\ c \in friends(a)
  /\ \E A \in accounts : incoming(A) # {}
  /\ \E j \in 1..Len(messages) : messages[j].from = c /\ messages[j].to = a

\* C27: a send between friends of a text longer than MAX_TEXT goes through
\* and stores the first MAX_TEXT units of it, on both surfaces; the text of
\* every message of the log is between 1 and MAX_TEXT units long.
C27_TextTruncated ==
  [][/\ \A j \in 1..Len(messages') :
          Len(messages'[j].text) \in 1..MAX_TEXT
     /\ (last'.op = "send") =>
          \A k \in {<<"A">>, <<"b", " ">>}, t \in {Alice, Bob},
             x \in SizedTexts, r \in RandomParts :
            ( /\ Len(x) > MAX_TEXT
              /\ tokenOf[k] \in accounts /\ nameOf[t] \in accounts
              /\ nameOf[t] \in friends(tokenOf[k])
              /\ PostMessage(k, t, x, r) ) =>
              ( /\ last'.status = 200
                /\ Len(messages') = Len(messages) + 1
                /\ messages'[Len(messages')].text = [i \in 1..MAX_TEXT |-> x[i]] )
     /\ (last'.op = "chatMessage") =>
          \A s \in open, f \in {Alice, Bob}, t \in {Alice, Bob},
             x \in SizedTexts, r \in RandomParts :
            ( /\ Len(x) > MAX_TEXT
              /\ nameOf[f] \in accounts /\ nameOf[t] \in accounts
              /\ nameOf[t] \in friends(nameOf[f])
              /\ SocketChatMessage(s, f, t, x, 0, r) ) =>
              ( /\ last'.result = "ok"
                /\ Len(messages') = Len(messages) + 1
                /\ messages'[Len(messages')].text = [i \in 1..MAX_TEXT |-> x[i]] )]_vars

\* the log holds a message cut to MAX_TEXT units: it ends in "x", the unit
\* before the last of the text that was sent
C27_Witness ==
  /\ last.op = "send" /\ last.status = 200
  /\ Len(last.body.text) = MAX_TEXT
  /\ last.body.text[1] = "w" /\ last.body.text[MAX_TEXT] = "x"
  /\ messages[Len(messages)] = last.body

\* C28: in every reachable state the two parties of every message of the
\* log are accounts that hold each other as friends.
C28_MessagesBetweenFriends ==
  \A j \in 1..Len(messages) :
    /\ {messages[j].from, messages[j].to} \subseteq accounts
    /\ messages[j].to \in friends(messages[j].from)
    /\ messages[j].from \in friends(messages[j].to)

\* C29: in every reachable state every entry of the presence registry maps
\* its username to a session that is still connected.
C29_PresenceIsLive ==
  \A U \in DOMAIN onlineUsers : onlineUsers[U] \in open

\* C30: in every reachable state, for all accounts A and B, B is in
\* outgoing(A) if and only if A is in incoming(B).
C30_PendingSymmetric ==
  \A A \in accounts, B \in accounts :
    (B \in outgoing(A)) <=> (A \in incoming(B))

\* C31: in every reachable state every username in an account's friends,
\* incoming or outgoing set, and the sender and the recipient of every
\* message of the log, is a key of the identity store.
C31_ReferentialIntegrity ==
  /\ \A A \in accounts :
       friends(A) \cup incoming(A) \cup outgoing(A) \subseteq accounts
  /\ \A j \in 1..Len(messages) :
       {messages[j].from, messages[j].to} \subseteq accounts

\* C32: a login is answered 200 only with the password the account holds,
\* and an account holds a password only from the successful register that
\* created it: no step changes the password of an account, an account
\* that appears has the password null unless the step is a register answered
\* 200 with that password.  An account with the password null (created by
\* a session register) is never logged into, and a register for a username
\* that has an account, lazily created or not, is answered 409 AlreadyExists.
C32_LoginNeedsRegistration ==
  [][/\ (last'.op = "login") =>
          \A u \in {Alice, Carol}, p \in Credentials :
            (Login(u, p) /\ last'.status = 200) =>
              /\ nameOf[u] \in accounts
              /\ users[nameOf[u]].password = p
              /\ users[nameOf[u]].password # null
     /\ \A A \in DOMAIN users' :
          IF A \in accounts
          THEN users'[A].password = users[A].password
          ELSE \/ users'[A].password = null
               \/ /\ last'.op = "register" /\ last'.status = 200
                  /\ last'.from = A
                  /\ \E u \in {Alice, Carol}, p \in {<<"p">>, <<"q">>} :
                      Register(u, p) /\ users'[A].password = p
     /\ (last'.op = "register") =>
          \A u \in {Alice, Carol}, p \in {<<"p">>, <<"q">>} :
            (Register(u, p) /\ nameOf[u] \in accounts) =>
              (last'.status = 409 /\ users' = users)]_vars

\* alice is logged in while carol, created by a session, has no password
C32_Witness ==
  /\ last.op = "login" /\ last.status = 200 /\ last.from = a
  /\ c \in accounts /\ users[c].password = null
  /\ users[a].password = <<"q">>

\* C33: GET /friends, GET /api/contacts, GET /api/messages/:contactId,
\* callUser and answerCall leave the identity store, the presence registry
\* and the message log as they were, whatever they answer.
C33_ReadsChangeNothing ==
  [][(\/ \E u \in {Missing, Alice, Carol} : GetFriends(u)
      \/ \E k \in RawTokens : GetContacts(k)
      \/ \E k \in RawTokens, n \in {Missing, Alice, Bob} : GetMessages(k, n)
      \/ \E s \in open, t \in {Missing, Bob}, m \in RawRooms :
           CallUser(s, Alice, t, m)
      \/ \E s \in open, t \in {Missing, Bob} :
           AnswerCall(s, Alice, t, <<"r">>))
     => /\ users' = users
        /\ onlineUsers' = onlineUsers
        /\ messages' = messages]_vars

\* contacts were read, through ensureUser, from a store with an account,
\* a presence entry and a message
C33_Witness ==
  /\ last.op = "contacts" /\ last.status = 200 /\ last.from = b
  /\ last.body = {a}
  /\ has(onlineUsers, b)
  /\ Len(messages) = MaxMessages

\* C34: in every reachable state neither the identity store nor the
\* presence registry has the empty string as a key.
C34_NoEmptyKey ==
  /\ ~has(users, <<>>)
  /\ ~has(onlineUsers, <<>>)

=============================================================================
